---- MODULE Spec2Model ----
(***************************************************************************)
(* Model of convert_prores.py: the batch driver that walks directory       *)
(* trees, probes every file with ffprobe, builds one ffmpeg command per    *)
(* file and follows the encoder's status stream.                           *)
(*                                                                         *)
(* Text is modelled as sequences of one-character strings, so that         *)
(* os.path.splitext, str.lower, str.split and int() are computed the way   *)
(* the interpreter computes them.  A path is a record [dir, name]: the     *)
(* directory part is opaque, the file name is text.                        *)
(***************************************************************************)
EXTENDS Integers, Sequences, FiniteSets, TLC

(* ------------------------------ bounds -------------------------------- *)

\* most positional (non-flag) arguments on the command line
MaxDirs == 2
\* most status lines one encoder writes before it closes its output
MaxLines == 1
\* largest value of time.time() - start_time, in clock ticks
MaxElapsed == 1
\* largest nb_frames ffprobe reports
MaxFrames == 1

(* ------------------------------- text --------------------------------- *)

Upper == <<"A", "I", "K", "M", "O", "P", "V">>
Lower == <<"a", "i", "k", "m", "o", "p", "v">>

\* str.lower() on one character
LowerChar(c) ==
    IF \E i \in 1..Len(Upper) : Upper[i] = c
    THEN Lower[CHOOSE i \in 1..Len(Upper) : Upper[i] = c]
    ELSE c

\* str.lower()
LowerStr(s) == [i \in 1..Len(s) |-> LowerChar(s[i])]

\* genericpath._splitext on a name without separators: the extension starts
\* at the last dot, unless only dots precede it
splitext(name) ==
    LET dots == {i \in 1..Len(name) : name[i] = "."}
        dotIndex == IF dots = {} THEN 0
                    ELSE CHOOSE i \in dots : \A j \in dots : j <= i
    IN  IF dotIndex > 0 /\ \E i \in 1..(dotIndex - 1) : name[i] # "."
        THEN <<SubSeq(name, 1, dotIndex - 1), SubSeq(name, dotIndex, Len(name))>>
        ELSE <<name, <<>>>>

VIDEO_EXTENSIONS ==
    { <<".", "m", "o", "v">>, <<".", "m", "p", "4">>,
      <<".", "m", "k", "v">>, <<".", "a", "v", "i">> }

PRORES_SUFFIX == <<"_", "p", "r", "o", "r", "e", "s">>
PROXY_SUFFIX == <<"_", "p", "r", "o", "x", "y", ".", "m", "p", "4">>

\* os.path.join(file_dir, f"{file_base}_prores{file_ext}")
prores_output_file(input_file) ==
    LET parts == splitext(input_file.name)
    IN  [dir |-> input_file.dir, name |-> parts[1] \o PRORES_SUFFIX \o parts[2]]

\* os.path.join(file_dir, f"{file_base}_proxy.mp4")
proxy_output_file(input_file) ==
    LET parts == splitext(input_file.name)
    IN  [dir |-> input_file.dir, name |-> parts[1] \o PROXY_SUFFIX]

\* file_ext.lower() not in VIDEO_EXTENSIONS
unsupported(input_file) ==
    LowerStr(splitext(input_file.name)[2]) \notin VIDEO_EXTENSIONS

(* ---------------------------- file system ----------------------------- *)

File(dir, name) == [dir |-> dir, name |-> name]

NoFile == File("", <<>>)

\* the tree the batch is run on, as an earlier run can have left it:
\*   d1    a.mov with its mezzanine output a_prores.mov, and a text file
\*   d2    a dot-file
\*   d2/s  b.MP4 with its proxy output b_proxy.mp4, the mezzanine one missing
Tree ==
    { File("d1", <<"a", ".", "m", "o", "v">>),
      File("d1", <<"a">> \o PRORES_SUFFIX \o <<".", "m", "o", "v">>),
      File("d1", <<"n", ".", "t", "x", "t">>),
      File("d2", <<".", "a", "v", "i">>),
      File("d2/s", <<"b", ".", "M", "P", "4">>),
      File("d2/s", <<"b">> \o PROXY_SUFFIX) }

\* os.path.isdir(directory) for the words a command line can name
isdir(directory) == directory \in {"d1", "d2"}

\* the directories os.walk(directory) yields, top-down
walk(directory) ==
    IF directory = "d1" THEN <<"d1">>
    ELSE IF directory = "d2" THEN <<"d2", "d2/s">>
    ELSE <<>>

RECURSIVE SeqOf(_)
SeqOf(S) ==
    IF S = {} THEN <<>>
    ELSE LET x == CHOOSE y \in S : TRUE IN <<x>> \o SeqOf(S \ {x})

\* the files os.walk lists for one directory at the moment it reaches it
\* (the listing order is the operating system's; one fixed order is taken)
listing(existing, root) == SeqOf({f \in existing : f.dir = root})

(* --------------------------- check_gpu_support ------------------------ *)

\* what "ffmpeg -hwaccels" can answer: the vendor words its listing holds,
\* or no answer at all when the engine cannot be run
HwListings == [run : {"ok", "absent"}, words : SUBSET {"cuda", "nvenc", "amf"}]

check_gpu_support(hw) ==
    IF hw.run # "ok" THEN "none"
    ELSE IF "cuda" \in hw.words \/ "nvenc" \in hw.words THEN "nvidia"
    ELSE IF "amf" \in hw.words THEN "amd"
    ELSE "none"

(* ----------------------------- get_file_info -------------------------- *)

DefaultInfo == <<0, 0, "Unknown", "Unknown">>

\* what the two ffprobe runs can do on a file.  video: the first run cannot
\* start ("absent"), exits non-zero ("exit1"), prints no JSON ("malformed"),
\* prints an empty stream list ("nostream") or prints a stream ("ok");
\* nb_frames = -1 stands for a stream without that key.  audio likewise.
ProbeOutcomes ==
    [video : {"absent", "exit1", "malformed", "nostream"},
     nb_frames : {-1}, audio : {"ok"}]
    \cup [video : {"ok"}, nb_frames : -1..MaxFrames, audio : {"ok"}]
    \cup [video : {"ok"}, nb_frames : {MaxFrames}, audio : {"exit1", "nostream"}]

\* the tuple get_file_info returns, whether the except branch was taken, and
\* the number of ffprobe processes that were started
get_file_info(probe) ==
    IF probe.video = "absent"
    THEN [info |-> DefaultInfo, failed |-> TRUE, launches |-> 0]
    ELSE IF probe.video # "ok"
    THEN [info |-> DefaultInfo, failed |-> TRUE, launches |-> 1]
    ELSE IF probe.audio # "ok"
    THEN [info |-> DefaultInfo, failed |-> TRUE, launches |-> 2]
    ELSE [info |-> << IF probe.nb_frames = -1 THEN 0 ELSE probe.nb_frames,
                      1, "h264", "aac" >>,
          failed |-> FALSE, launches |-> 2]

(* ---------------------------- command builder ------------------------- *)

\* one argument of the ffmpeg command line: a literal word or a file path
Word(w) == [lit |-> w, path |-> NoFile]
Path(f) == [lit |-> "", path |-> f]

Words(ws) == [i \in 1..Len(ws) |-> Word(ws[i])]

\* lines 82-86: the decode acceleration words for the detected backend
hwaccel_args(gpu) ==
    IF gpu = "nvidia" THEN Words(<<"-hwaccel", "cuda">>)
    ELSE IF gpu = "amd" THEN Words(<<"-hwaccel", "dxva2">>)
    ELSE <<>>

\* lines 75-77 without the existence test: the flag is passed on as given
proxy_wanted_unchecked(gen, proxy_exists, force) == gen

\* lines 75-77: whether the proxy target is still wanted for this job
proxy_wanted(gen, proxy_exists, force) ==
    IF gen /\ proxy_exists /\ ~force THEN FALSE ELSE gen

\* lines 98-108: the proxy target
proxy_command(input_file, scale) ==
    Words(<<"-c:v", "libx265", "-crf", "28", "-preset", "medium", "-c:a", "aac">>)
    \o (IF scale THEN Words(<<"-vf", "scale=iw*0.5:ih*0.5">>) ELSE <<>>)
    \o <<Path(proxy_output_file(input_file))>>

\* lines 80-108: the whole argument list
build_command(input_file, gpu, gen, scale) ==
    <<Word("ffmpeg"), Word("-i"), Path(input_file)>>
    \o hwaccel_args(gpu)
    \o Words(<<"-c:v", "prores_ks", "-profile:v", "prores_hq",
               "-pix_fmt", "yuv422p", "-c:a", "copy">>)
    \o <<Path(prores_output_file(input_file))>>
    \o (IF gen THEN proxy_command(input_file, scale) ELSE <<>>)

\* the files a command names as outputs: every path but the one after -i
targets(command) ==
    { command[i].path : i \in {j \in 2..Len(command) :
          command[j].path # NoFile /\ command[j - 1] # Word("-i")} }

(* --------------------------- progress tracker ------------------------- *)

FRAME_MARKER == <<"f", "r", "a", "m", "e", "=">>

Whitespace == {" ", "\t", "\r", "\n"}

Digits == <<"0", "1", "2", "3", "4", "5", "6", "7", "8", "9">>

\* the status lines an encoder is taken to write
StatusLines ==
    { <<"f", "r", "a", "m", "e", "=", " ", "0", " ", "q">>,
      <<"f", "r", "a", "m", "e", "=", " ", "1", " ", "q">>,
      <<"f", "r", "a", "m", "e", "=", "x">>,
      <<"f", "r", "a", "m", "e", "=", " ">>,
      <<"s", "i", "z", "e", "=", "1">> }

IsAt(s, pat, i) ==
    /\ i >= 1
    /\ i + Len(pat) - 1 <= Len(s)
    /\ SubSeq(s, i, i + Len(pat) - 1) = pat

\* str.find, 1-based, 0 when absent
Find(s, pat, from) ==
    LET hits == {i \in from..Len(s) : IsAt(s, pat, i)}
    IN  IF hits = {} THEN 0 ELSE CHOOSE i \in hits : \A j \in hits : i <= j

\* line.split("frame=")[1]: the text between the first marker and the next
after_marker(line) ==
    LET start == Find(line, FRAME_MARKER, 1) + Len(FRAME_MARKER)
        next == Find(line, FRAME_MARKER, start)
    IN  SubSeq(line, start, IF next = 0 THEN Len(line) ELSE next - 1)

\* s.split(): the first whitespace-separated token, <<>> when there is none
first_token(s) ==
    LET solid == {i \in 1..Len(s) : s[i] \notin Whitespace}
        b == CHOOSE i \in solid : \A j \in solid : i <= j
        gaps == {i \in b..Len(s) : s[i] \in Whitespace}
        e == IF gaps = {} THEN Len(s)
             ELSE (CHOOSE i \in gaps : \A j \in gaps : i <= j) - 1
    IN  IF solid = {} THEN <<>> ELSE SubSeq(s, b, e)

DigitValue(c) == (CHOOSE i \in 1..Len(Digits) : Digits[i] = c) - 1

IsDigit(c) == \E i \in 1..Len(Digits) : Digits[i] = c

RECURSIVE Decimal(_)
Decimal(s) ==
    IF s = <<>> THEN 0
    ELSE 10 * Decimal(SubSeq(s, 1, Len(s) - 1)) + DigitValue(s[Len(s)])

\* int(token) for a token of sign and digit characters
int(token) ==
    LET signed == token # <<>> /\ token[1] \in {"+", "-"}
        body == IF signed THEN Tail(token) ELSE token
    IN  IF body = <<>> \/ \E i \in 1..Len(body) : ~IsDigit(body[i])
        THEN [exc |-> "ValueError", value |-> 0]
        ELSE [exc |-> "none",
              value |-> IF signed /\ token[1] = "-" THEN 0 - Decimal(body)
                        ELSE Decimal(body)]

\* line 126: int(line.split("frame=")[1].split()[0])
parse_frame(line) ==
    LET token == first_token(after_marker(line))
    IN  IF token = <<>> THEN [exc |-> "IndexError", value |-> 0]
        ELSE int(token)

\* a quotient kept exact: <<numerator, denominator>>
Zero == <<0, 1>>

\* line 128: (elapsed_time / frame) * (nb_frames - frame) if frame > 0 else 0
eta_of(elapsed, frame, nb_frames) ==
    IF frame > 0 THEN <<elapsed * (nb_frames - frame), frame>> ELSE Zero

\* line 133: (frame / nb_frames) * 100, which divides by nb_frames
percent_of(frame, nb_frames) ==
    IF nb_frames = 0 THEN [exc |-> "ZeroDivisionError", value |-> Zero]
    ELSE [exc |-> "none", value |-> <<frame * 100, nb_frames>>]

NoPostfix == [Elapsed |-> 0, ETA |-> Zero, Percent |-> Zero, set |-> FALSE]

\* line 117: tqdm(total=nb_frames)
NewBar == [n |-> 0, postfix |-> NoPostfix]

\* lines 124-137: the body of the read loop on one line.  exc is the
\* exception that leaves the loop, "none" when the loop goes on
progress(bar, line, elapsed, nb_frames) ==
    IF Find(line, FRAME_MARKER, 1) = 0 THEN [exc |-> "none", bar |-> bar]
    ELSE LET frame == parse_frame(line)
             pct == percent_of(frame.value, nb_frames)
         IN  IF frame.exc # "none" THEN [exc |-> "none", bar |-> bar]
             ELSE IF pct.exc # "none"
             THEN [exc |-> pct.exc, bar |-> [bar EXCEPT !.n = frame.value]]
             ELSE [exc |-> "none",
                   bar |-> [n |-> frame.value,
                            postfix |-> [Elapsed |-> elapsed,
                                         ETA |-> eta_of(elapsed, frame.value, nb_frames),
                                         Percent |-> pct.value,
                                         set |-> TRUE]]]

(* ------------------------------- state -------------------------------- *)

VARIABLES
    argv,             \* sys.argv[1:]
    pc,               \* where the single control thread stands
    force_overwrite,  \* main's flags
    generate_proxy,
    scale_proxy,
    directories,      \* main's list of positional arguments
    d,                \* index of the directory main's loop is at
    gpu_type,         \* result of check_gpu_support
    walked,           \* the directories os.walk was started on, in order
    roots,            \* directories os.walk has still to yield
    files,            \* files of the yielded directory still to dispatch
    fs,               \* the files that exist
    job,              \* the locals of the latest convert_to_prores_and_proxy
    proc,             \* the encode subprocess of the current job
    alive,            \* input files whose encode subprocess is not reaped
    pbar,             \* the tqdm bar of the current job
    proxy_skips,      \* input files whose "Skipping proxy" notice was printed
    out,              \* what the latest handler printed
    exc,              \* the exception that ended the interpreter, or "none"
    exit_code         \* the interpreter's exit status, -1 while it runs

vars == <<argv, pc, force_overwrite, generate_proxy, scale_proxy, directories,
          d, gpu_type, walked, roots, files, fs, job, proc, alive, pbar,
          proxy_skips, out, exc, exit_code>>

FlagWords == <<"-f", "--proxy", "--scale">>

\* what a positional argument can be: two directories, a path that is no
\* directory, and the lens-correction option of the command-line reference
Positionals == {"d1", "d2", "nodir", "--fisheye=GoProHero9"}

Injective(s) == \A i, j \in 1..Len(s) : i # j => s[i] # s[j]

RECURSIVE SeqsUpTo(_, _)
SeqsUpTo(S, n) ==
    IF n = 0 THEN {<<>>}
    ELSE LET shorter == SeqsUpTo(S, n - 1)
         IN  shorter \cup {Append(s, x) : s \in shorter, x \in S}

\* the command lines: any subset of the flags, then up to MaxDirs distinct
\* positional arguments
Argvs ==
    { SelectSeq(FlagWords, LAMBDA w : w \in on) \o ps :
        on \in SUBSET {"-f", "--proxy", "--scale"},
        ps \in {s \in SeqsUpTo(Positionals, MaxDirs) : Injective(s)} }

NoJob ==
    [input_file |-> NoFile, info |-> DefaultInfo, probe_failed |-> FALSE,
     probes |-> 0, proxy_exists |-> FALSE, gen |-> FALSE, command |-> <<>>,
     outcome |-> "none"]

\* no encode subprocess exists
NoProc == [emitted |-> 0, running |-> FALSE]

Init ==
    /\ argv \in Argvs
    /\ fs = Tree
    /\ pc = "main"
    /\ force_overwrite = FALSE
    /\ generate_proxy = FALSE
    /\ scale_proxy = FALSE
    /\ directories = <<>>
    /\ d = 1
    /\ gpu_type = "none"
    /\ walked = <<>>
    /\ roots = <<>>
    /\ files = <<>>
    /\ job = NoJob
    /\ proc = NoProc
    /\ alive = {}
    /\ pbar = NewBar
    /\ proxy_skips = {}
    /\ out = <<>>
    /\ exc = "none"
    /\ exit_code = -1

(* ------------------------------- main --------------------------------- *)

IsFlag(arg) == arg \in {"-f", "--force", "--proxy", "--scale"}

Has(args, words) == \E i \in 1..Len(args) : args[i] \in words

\* lines 171-179: every argument that is no flag is a directory
positional_args(args) == SelectSeq(args, LAMBDA a : ~IsFlag(a))

\* lines 162-164: no argument at all
MainUsage ==
    /\ pc = "main"
    /\ Len(argv) < 1
    /\ out' = <<"Usage">>
    /\ exit_code' = 1
    /\ pc' = "done"
    /\ UNCHANGED <<argv, force_overwrite, generate_proxy, scale_proxy, directories,
                   d, gpu_type, walked, roots, files, fs, job, proc, alive, pbar,
                   proxy_skips, exc>>

\* lines 166-183: the flags are read, and no directory is left
MainNoDirectories ==
    /\ pc = "main"
    /\ Len(argv) >= 1
    /\ positional_args(argv) = <<>>
    /\ force_overwrite' = Has(argv, {"-f", "--force"})
    /\ generate_proxy' = Has(argv, {"--proxy"})
    /\ scale_proxy' = Has(argv, {"--scale"})
    /\ directories' = <<>>
    /\ out' = <<"Error: No directories specified.">>
    /\ exit_code' = 1
    /\ pc' = "done"
    /\ UNCHANGED <<argv, d, gpu_type, walked, roots, files, fs, job, proc, alive,
                   pbar, proxy_skips, exc>>

\* lines 166-188: the flags are read and the GPU is detected
MainStart ==
    /\ pc = "main"
    /\ positional_args(argv) # <<>>
    /\ force_overwrite' = Has(argv, {"-f", "--force"})
    /\ generate_proxy' = Has(argv, {"--proxy"})
    /\ scale_proxy' = Has(argv, {"--scale"})
    /\ directories' = positional_args(argv)
    /\ \E hw \in HwListings : gpu_type' = check_gpu_support(hw)
    /\ out' = <<"Detected GPU">>
    /\ pc' = "dirs"
    /\ UNCHANGED <<argv, d, walked, roots, files, fs, job, proc, alive, pbar,
                   proxy_skips, exc, exit_code>>

\* line 190 with no directory left: main returns
MainEnd ==
    /\ pc = "dirs"
    /\ d > Len(directories)
    /\ exit_code' = 0
    /\ pc' = "done"
    /\ UNCHANGED <<argv, force_overwrite, generate_proxy, scale_proxy, directories,
                   d, gpu_type, walked, roots, files, fs, job, proc, alive, pbar,
                   proxy_skips, out, exc>>

(* -------------------------- process_directory ------------------------- *)

\* lines 151-153: the argument is no directory
DirectoryMissing ==
    /\ pc = "dirs"
    /\ d <= Len(directories)
    /\ ~isdir(directories[d])
    /\ out' = <<"Processing directory", "Error: Directory does not exist.">>
    /\ d' = d + 1
    /\ UNCHANGED <<argv, pc, force_overwrite, generate_proxy, scale_proxy,
                   directories, gpu_type, walked, roots, files, fs, job, proc,
                   alive, pbar, proxy_skips, exc, exit_code>>

\* line 155: os.walk starts on the argument
WalkStart ==
    /\ pc = "dirs"
    /\ d <= Len(directories)
    /\ isdir(directories[d])
    /\ out' = <<"Processing directory">>
    /\ walked' = Append(walked, directories[d])
    /\ roots' = walk(directories[d])
    /\ pc' = "walk"
    /\ UNCHANGED <<argv, force_overwrite, generate_proxy, scale_proxy, directories,
                   d, gpu_type, files, fs, job, proc, alive, pbar, proxy_skips,
                   exc, exit_code>>

\* line 155: os.walk yields the next directory with the files it holds now
WalkNext ==
    /\ pc = "walk"
    /\ roots # <<>>
    /\ files' = listing(fs, Head(roots))
    /\ roots' = Tail(roots)
    /\ pc' = "files"
    /\ UNCHANGED <<argv, force_overwrite, generate_proxy, scale_proxy, directories,
                   d, gpu_type, walked, fs, job, proc, alive, pbar, proxy_skips,
                   out, exc, exit_code>>

\* line 155: os.walk is exhausted and process_directory returns
WalkEnd ==
    /\ pc = "walk"
    /\ roots = <<>>
    /\ d' = d + 1
    /\ pc' = "dirs"
    /\ UNCHANGED <<argv, force_overwrite, generate_proxy, scale_proxy, directories,
                   gpu_type, walked, roots, files, fs, job, proc, alive, pbar,
                   proxy_skips, out, exc, exit_code>>

\* line 156: the files of the yielded directory are exhausted
FilesEnd ==
    /\ pc = "files"
    /\ files = <<>>
    /\ pc' = "walk"
    /\ UNCHANGED <<argv, force_overwrite, generate_proxy, scale_proxy, directories,
                   d, gpu_type, walked, roots, files, fs, job, proc, alive, pbar,
                   proxy_skips, out, exc, exit_code>>

(* --------------------- convert_to_prores_and_proxy -------------------- *)

\* what get_file_info can return for a file
ProbeResults == {get_file_info(probe) : probe \in ProbeOutcomes}

\* lines 53-54: the diagnostic of a failed probe
probe_notice(meta) ==
    IF meta.failed THEN <<"Error getting file info">> ELSE <<>>

\* line 59: the locals once get_file_info has returned
ProbedJob(input_file, meta, gen) ==
    [input_file |-> input_file, info |-> meta.info, probe_failed |-> meta.failed,
     probes |-> meta.launches, proxy_exists |-> FALSE, gen |-> gen,
     command |-> <<>>, outcome |-> "none"]

\* lines 59-66: the file is probed, and its extension is no video extension
ConvertUnsupported ==
    /\ pc = "files"
    /\ files # <<>>
    /\ unsupported(Head(files))
    /\ \E meta \in ProbeResults :
             /\ job' = [ProbedJob(Head(files), meta, generate_proxy)
                          EXCEPT !.outcome = "unsupported"]
             /\ out' = probe_notice(meta) \o <<"Skipping unsupported file">>
    /\ files' = Tail(files)
    /\ UNCHANGED <<argv, pc, force_overwrite, generate_proxy, scale_proxy,
                   directories, d, gpu_type, walked, roots, fs, proc, alive, pbar,
                   proxy_skips, exc, exit_code>>

\* lines 59-73: the file is probed, and the mezzanine output exists while -f
\* was not given
ConvertExists ==
    /\ pc = "files"
    /\ files # <<>>
    /\ ~unsupported(Head(files))
    /\ prores_output_file(Head(files)) \in fs
    /\ ~force_overwrite
    /\ \E meta \in ProbeResults :
             /\ job' = [ProbedJob(Head(files), meta, generate_proxy)
                          EXCEPT !.outcome = "exists"]
             /\ out' = probe_notice(meta) \o <<"File exists. Skipping">>
    /\ files' = Tail(files)
    /\ UNCHANGED <<argv, pc, force_overwrite, generate_proxy, scale_proxy,
                   directories, d, gpu_type, walked, roots, fs, proc, alive, pbar,
                   proxy_skips, exc, exit_code>>

\* the exit statuses an encoder can end with
ExitStatuses == {0, 1}

\* lines 59-122: the file is probed, the command is built, the bar is opened
\* and the encoder is started (ffmpeg is installed: Popen itself succeeds)
ConvertStart ==
    /\ pc = "files"
    /\ files # <<>>
    /\ ~unsupported(Head(files))
    /\ prores_output_file(Head(files)) \notin fs \/ force_overwrite
    /\ LET input_file == Head(files)
           proxy_exists == proxy_output_file(input_file) \in fs
           gen == proxy_wanted(generate_proxy, proxy_exists, force_overwrite)
           sub_skip == generate_proxy /\ ~gen
       IN  /\ \E meta \in ProbeResults :
                    /\ job' = [ProbedJob(input_file, meta, gen) EXCEPT
                                 !.proxy_exists = proxy_exists,
                                 !.command = build_command(input_file, gpu_type,
                                                           gen, scale_proxy),
                                 !.outcome = "running"]
                    /\ out' = probe_notice(meta)
                              \o (IF sub_skip THEN <<"File exists. Skipping proxy">>
                                  ELSE <<>>)
                              \o <<"Processing">>
                              \o (IF gen THEN <<"Generating proxy footage">> ELSE <<>>)
           /\ proxy_skips' = IF sub_skip THEN proxy_skips \cup {input_file}
                             ELSE proxy_skips
           /\ alive' = alive \cup {input_file}
    /\ proc' = [emitted |-> 0, running |-> TRUE]
    /\ files' = Tail(files)
    /\ pbar' = NewBar
    /\ pc' = "reading"
    /\ UNCHANGED <<argv, force_overwrite, generate_proxy, scale_proxy, directories,
                   d, gpu_type, walked, roots, fs, exc, exit_code>>

\* what the loop body can do on the next line: any status line, read at any
\* clock value
Steps(bar, nb_frames) ==
    { progress(bar, line, elapsed, nb_frames) :
        line \in StatusLines, elapsed \in 0..MaxElapsed }

\* lines 123-137: one line of the status stream is read and the loop goes on
ReadLine ==
    /\ pc = "reading"
    /\ proc.emitted < MaxLines
    /\ \E step \in Steps(pbar, job.info[1]) :
         /\ step.exc = "none"
         /\ pbar' = step.bar
    /\ proc' = [proc EXCEPT !.emitted = @ + 1]
    /\ UNCHANGED <<argv, pc, force_overwrite, generate_proxy, scale_proxy,
                   directories, d, gpu_type, walked, roots, files, fs, job, alive,
                   proxy_skips, out, exc, exit_code>>

\* lines 123-137: a line makes the loop body raise; nothing up to main
\* catches it, so the interpreter ends with a traceback and status 1, and the
\* encoder is never waited for
ReadLineRaises ==
    /\ pc = "reading"
    /\ proc.emitted < MaxLines
    /\ \E step \in Steps(pbar, job.info[1]) :
         /\ step.exc # "none"
         /\ pbar' = step.bar
         /\ exc' = step.exc
    /\ proc' = [proc EXCEPT !.emitted = @ + 1]
    /\ job' = [job EXCEPT !.outcome = "aborted"]
    /\ out' = <<"Traceback">>
    /\ exit_code' = 1
    /\ pc' = "done"
    /\ UNCHANGED <<argv, force_overwrite, generate_proxy, scale_proxy, directories,
                   d, gpu_type, walked, roots, files, fs, alive, proxy_skips>>

\* line 139 left out: the encoder is never waited for
reap_nothing(procs, input_file) == procs

\* line 139: process.wait() reaps the encoder
reap(procs, input_file) == procs \ {input_file}

\* lines 142-147: the report for an exit status
report(rc, gen) ==
    IF rc = 0
    THEN <<"Successfully processed">> \o (IF gen THEN <<"Proxy created">> ELSE <<>>)
    ELSE <<"Error processing">>

\* lines 123, 139-147: the stream is closed, the encoder is waited for, the
\* bar is closed and the exit status is reported.  The encoder has created
\* the files its command names (ffmpeg opens its outputs before it encodes)
Wait ==
    /\ pc = "reading"
    /\ proc' = NoProc
    /\ alive' = reap(alive, job.input_file)
    /\ fs' = fs \cup targets(job.command)
    /\ pbar' = NewBar
    /\ \E rc \in ExitStatuses :
         /\ job' = [job EXCEPT !.outcome = IF rc = 0 THEN "ok" ELSE "error"]
         /\ out' = report(rc, job.gen)
    /\ pc' = "files"
    /\ UNCHANGED <<argv, force_overwrite, generate_proxy, scale_proxy, directories,
                   d, gpu_type, walked, roots, files, proxy_skips, exc, exit_code>>

Next ==
    \/ MainUsage
    \/ MainNoDirectories
    \/ MainStart
    \/ MainEnd
    \/ DirectoryMissing
    \/ WalkStart
    \/ WalkNext
    \/ WalkEnd
    \/ FilesEnd
    \/ ConvertUnsupported
    \/ ConvertExists
    \/ ConvertStart
    \/ ReadLine
    \/ ReadLineRaises
    \/ Wait

Spec == Init /\ [][Next]_vars

(* ------------------------------ properties ---------------------------- *)

Range(s) == {s[i] : i \in 1..Len(s)}

\* a command was built for the latest job
Built == job.command # <<>>

\* the interpreter has ended with every directory, root and file dispatched
BatchComplete == d > Len(directories) /\ roots = <<>> /\ files = <<>>

\* C1: with a total frame count of 0, no "frame=N" status line makes the
\* progress loop raise, and the ETA and the percentage it publishes are 0.
C1_ZeroTotalNeverRaises ==
    (job.outcome \in {"running", "aborted"} /\ job.info[1] = 0)
        => /\ exc = "none"
           /\ pbar.postfix.ETA[1] = 0
           /\ pbar.postfix.Percent[1] = 0

\* C2: for a file whose extension is no video extension, no command is built
\* and no subprocess of any kind is started.
C2_UnsupportedLaunchesNothing ==
    job.outcome = "unsupported"
        => job.command = <<>> /\ job.probes = 0 /\ alive = {}

\* C3: for a file whose mezzanine output exists while -f is not given, no
\* subprocess is started, the output stays in place and a skip notice is
\* printed.
C3_ExistingOutputLaunchesNothing ==
    job.outcome = "exists"
        => /\ job.command = <<>>
           /\ job.probes = 0
           /\ alive = {}
           /\ prores_output_file(job.input_file) \in fs
           /\ "File exists. Skipping" \in Range(out)

\* C4: a failed probe returns the default tuple and never aborts the batch:
\* the interpreter does not end on an exception, and when it has ended every
\* file was dispatched.
C4_ProbeFailureNeverAborts ==
    job.probe_failed
        => /\ job.info = DefaultInfo
           /\ exc = "none"
           /\ pc = "done" => BatchComplete

\* C5: whatever the exit status of an encode, it is reported for its file
\* and the walker goes on: when the interpreter has ended, the latest encode
\* had its status reported and every remaining file and root was dispatched.
C5_EncodeStatusNeverFatal ==
    (pc = "done" /\ Built)
        => job.outcome \in {"ok", "error"} /\ alive = {} /\ BatchComplete

\* the position of the input argument in a command
InputIndex(command) == CHOOSE i \in 1..Len(command) : command[i] = Word("-i")

\* C6: in every built command the acceleration words of an nvidia or amd
\* backend stand before "-i"; with no backend there is no "-hwaccel" at all.
C6_HwaccelBeforeInput ==
    Built =>
        IF gpu_type \in {"nvidia", "amd"}
        THEN \E i \in 1..(InputIndex(job.command) - 2) :
                 SubSeq(job.command, i, i + 1) = hwaccel_args(gpu_type)
        ELSE Word("-hwaccel") \notin Range(job.command)

\* C7: with --proxy and without -f, a job whose proxy output exists names the
\* mezzanine target and no proxy target, and has its sub-skip recorded; any
\* job whose own proxy output is absent names its proxy target, also after
\* another job's proxy was skipped.
C7_ProxySkipIsPerJob ==
    Built =>
        /\ prores_output_file(job.input_file) \in targets(job.command)
        /\ (generate_proxy /\ job.proxy_exists /\ ~force_overwrite)
               => /\ targets(job.command) = {prores_output_file(job.input_file)}
                  /\ Path(proxy_output_file(job.input_file)) \notin Range(job.command)
                  /\ job.input_file \in proxy_skips
        /\ (generate_proxy /\ ~job.proxy_exists)
               => /\ proxy_output_file(job.input_file) \in targets(job.command)
                  /\ job.input_file \notin proxy_skips

\* C7 happens: after the proxy of one job was skipped, a later job of the same
\* batch is running with a proxy target.
C7_LaterJobStillGetsProxy ==
    /\ proxy_skips # {}
    /\ ~force_overwrite
    /\ job.outcome = "running"
    /\ job.input_file \notin proxy_skips
    /\ proxy_output_file(job.input_file) \in targets(job.command)

\* the words that would ask ffmpeg for a lens correction of a camera model
LensFilterWords ==
    {"lenscorrection=GoProHero9", "lensfun=model=GoProHero9", "GoProHero9"}

\* C8: with --fisheye=GoProHero9 on the command line, every built command
\* holds a lens-correction filter for that model before the mezzanine target,
\* and none after it.
C8_FisheyeFilterInMezzanine ==
    (Has(argv, {"--fisheye=GoProHero9"}) /\ Built)
        => LET mezz == CHOOSE i \in 1..Len(job.command) :
                           job.command[i] = Path(prores_output_file(job.input_file))
           IN  /\ \E i \in 1..(mezz - 1) : job.command[i].lit \in LensFilterWords
               /\ \A i \in (mezz + 1)..Len(job.command) :
                      job.command[i].lit \notin LensFilterWords

\* C9: when some root is no directory, the interpreter still ends with status
\* 0 and has walked every root that is a directory, in argument order.
C9_MissingRootSkipped ==
    (pc = "done" /\ \E i \in 1..Len(directories) : ~isdir(directories[i]))
        => /\ exit_code = 0
           /\ walked = SelectSeq(directories, isdir)

\* the outcomes with which convert_to_prores_and_proxy has returned
Returned == {"none", "unsupported", "exists", "ok", "error"}

\* C10 as a state predicate: at most one encoder is alive, it belongs to the
\* job being read, and wherever a file can be dispatched no encoder is alive
\* and the latest job has returned.
NoOverlap ==
    /\ Cardinality(alive) <= 1
    /\ alive \subseteq {job.input_file}
    /\ proc.running <=> alive # {}
    /\ pc \in {"dirs", "walk", "files"}
           => alive = {} /\ job.outcome \in Returned /\ pbar = NewBar

\* a step that dispatches the next file to convert_to_prores_and_proxy
Dispatch == files # <<>> /\ files' = Tail(files)

\* C10: jobs never overlap: at most one encoder is alive at any time, and a
\* file is dispatched (probed, encoded) only when the stream of the job before
\* it was read to its end, its encoder was waited for and its status reported.
C10_JobsNeverOverlap ==
    /\ []NoOverlap
    /\ [][Dispatch => (alive = {} /\ ~proc.running /\ job.outcome \in Returned
                       /\ alive' \subseteq {Head(files)})]_vars

\* C10 happens: an encoder is alive for a job that follows a completed encode.
C10_SecondEncodeRunning ==
    /\ job.outcome = "running"
    /\ alive = {job.input_file}
    /\ fs # Tree

====
